---- MODULE Spec2Model ----
(***************************************************************************)
(* Model of app.py: the Telegram scheduler bot.  A request handler is a    *)
(* short sequential process (webhook or callback) that blocks on outbound  *)
(* HTTP calls: send_message (Telegram sendMessage) and the delegation POST *)
(* to one of the scheduler endpoints listed in SCHEDULER_URL.              *)
(* Strings are sequences of one-character strings.                         *)
(***************************************************************************)
EXTENDS Integers, Sequences, FiniteSets, TLC

(* ------------------------------ bounds --------------------------------- *)
NumHandlers == 2
MaxChatId == 2
MaxTableLen == 6
MaxHours == 7

(* -------------------------- program constants -------------------------- *)
MaxDuration == 5
PrefixLen == 10

VARIABLES handler, SCHEDULER_URL

vars == <<handler, SCHEDULER_URL>>

Handlers == 1..NumHandlers

(* ------------------------- python str methods -------------------------- *)
Whitespace == {" ", "\t", "\n"}

Digits == <<"0", "1", "2", "3", "4", "5", "6", "7", "8", "9">>

DigitSet == {Digits[i] : i \in 1..10}

DigitVal(c) == (CHOOSE i \in 1..10 : Digits[i] = c) - 1

RECURSIVE lstrip(_)
lstrip(s) == IF s # <<>> /\ Head(s) \in Whitespace THEN lstrip(Tail(s)) ELSE s

RECURSIVE rstrip(_)
rstrip(s) ==
    IF s # <<>> /\ s[Len(s)] \in Whitespace
    THEN rstrip(SubSeq(s, 1, Len(s) - 1))
    ELSE s

strip(s) == rstrip(lstrip(s))

RECURSIVE split(_, _)
split(s, sep) ==
    IF \A i \in 1..Len(s) : s[i] # sep
    THEN <<s>>
    ELSE LET i == CHOOSE k \in 1..Len(s) :
                      s[k] = sep /\ \A j \in 1..(k - 1) : s[j] # sep
         IN  <<SubSeq(s, 1, i - 1)>> \o split(SubSeq(s, i + 1, Len(s)), sep)

startswith(s, p) == Len(s) >= Len(p) /\ SubSeq(s, 1, Len(p)) = p

\* s[n:]
SliceFrom(s, n) == SubSeq(s, n + 1, Len(s))

\* int(s): optional surrounding whitespace, optional sign, one or more digits
IntBody(s) ==
    LET t == strip(s)
    IN  IF t # <<>> /\ Head(t) \in {"+", "-"} THEN Tail(t) ELSE t

IsInt(s) == IntBody(s) # <<>> /\ \A i \in 1..Len(IntBody(s)) : IntBody(s)[i] \in DigitSet

RECURSIVE DigitsValue(_)
DigitsValue(d) ==
    IF d = <<>> THEN 0
    ELSE 10 * DigitsValue(SubSeq(d, 1, Len(d) - 1)) + DigitVal(d[Len(d)])

int(s) ==
    LET t == strip(s)
    IN  IF Head(t) = "-" THEN 0 - DigitsValue(IntBody(s)) ELSE DigitsValue(IntBody(s))

(* ----------------------------- messages -------------------------------- *)
\* A chat text built by the bot: its kind, and the values formatted into it.
Msg(kind, hours, text, detail) ==
    [kind |-> kind, hours |-> hours, text |-> text, detail |-> detail]

NoMsg == Msg("", 0, <<>>, "")

get_start_message == Msg("start", 0, <<>>, "")

get_wakeup_message == Msg("wakeup", 0, <<>>, "")

get_default_message == Msg("default", 0, <<>>, "")

get_format_message == Msg("format", 0, <<>>, "")

RangeMessage == Msg("range", 0, <<>>, "")

AckMessageUntrimmed(hours, text) == Msg("ack", hours, text, "")

AckMessage(hours, text) == Msg("ack", hours, strip(text), "")

SchedulerErrorMessage(e) == Msg("scheduler_error", 0, <<>>, e)

WebhookErrorMessage(e) == Msg("webhook_error", 0, <<>>, e)

CallbackErrorMessage(e) == Msg("callback_error", 0, <<>>, e)

\* The text relayed by the callback is the payload's text itself.
RelayMessage(text) == Msg("relay", 0, text, "")

\* The JSON body of the delegation POST.
PostData(text) == Msg("data", 0, text, "")

(* ------------------------------ network -------------------------------- *)
\* What requests.post followed by raise_for_status can do.
NetOutcomes == {"ok", "HTTPError", "ConnectionError"}

TelegramUrl == <<"t">>

Call(op, url, chat_id, msg, res) ==
    [op |-> op, url |-> url, chat_id |-> chat_id, msg |-> msg, res |-> res]

(* -------------------------- inbound requests --------------------------- *)
RECURSIVE Decimal(_)
Decimal(n) ==
    IF n < 10 THEN <<Digits[n + 1]>>
    ELSE Decimal(n \div 10) \o <<Digits[(n % 10) + 1]>>

Signed(n) == IF n < 0 THEN <<"-">> \o Decimal(0 - n) ELSE Decimal(n)

Url(k) == <<"u">> \o Decimal(k)

\* The environment value: n endpoint URLs joined by commas.
RECURSIVE SchedulerUrlOf(_)
SchedulerUrlOf(n) ==
    IF n = 1 THEN Url(1) ELSE SchedulerUrlOf(n - 1) \o <<",">> \o Url(n)

Chats == 1..MaxChatId

SCHEDULE == <<"/", "s", "c", "h", "e", "d", "u", "l", "e">>

CommandTexts ==
    { <<"/", "s", "t", "a", "r", "t">>,
      <<"/", "f", "o", "r", "m", "a", "t">>,
      <<"/", "w", "a", "k", "e">>,
      <<"/", "w", "a", "k", "e", "u", "p">>,
      <<"/", "h", "e", "l", "p">>,
      <<"h", "i">> }

\* What follows "/schedule" in the first comma-separated field.
Heads ==
    { <<" ", "a", "b">>, <<" ", " ", "a", " ">>, <<" ">>, <<>>, <<"x", "a">> }

QuantityFields ==
    { <<" ">> \o Signed(d) : d \in (0 - 1)..MaxHours }
        \cup { <<" ", "x">>, <<>>, <<" ", "+", "2", " ">> }

UnitField == <<" ", "h">>

ScheduleTexts ==
    { SCHEDULE \o hd : hd \in Heads }
        \cup { SCHEDULE \o hd \o <<",">> \o q : hd \in Heads, q \in QuantityFields }
        \cup { SCHEDULE \o hd \o <<",">> \o q \o <<",">> \o UnitField :
                   hd \in Heads, q \in QuantityFields }

UserTexts == CommandTexts \cup ScheduleTexts

RelayTexts == { <<"r">>, <<" ", "r", " ">> }

Req(ep, valid, json) == [ep |-> ep, valid |-> valid, json |-> json]

NoRequest == Req("", FALSE, [raw |-> "none"])

WebhookRequests ==
    { Req("webhook", FALSE, [raw |-> "not json"]),
      Req("webhook", TRUE, [update_id |-> 1]),
      Req("webhook", TRUE, [message |-> [text |-> <<"h", "i">>]]) }
        \cup { Req("webhook", TRUE, [message |-> [chat |-> [id |-> c]]]) : c \in Chats }
        \cup { Req("webhook", TRUE, [message |-> [chat |-> [id |-> c], text |-> t]]) :
                   c \in Chats, t \in UserTexts }

CallbackRequests ==
    { Req("callback", FALSE, [raw |-> "not json"]),
      Req("callback", TRUE, [other |-> 1]) }
        \cup { Req("callback", TRUE, [chat_id |-> c]) : c \in Chats }
        \cup { Req("callback", TRUE, [text |-> t]) : t \in RelayTexts }
        \cup { Req("callback", TRUE, [chat_id |-> c, text |-> t]) :
                   c \in Chats, t \in RelayTexts }

Requests == WebhookRequests \cup CallbackRequests

WebhookText(c, t) == Req("webhook", TRUE, [message |-> [chat |-> [id |-> c], text |-> t]])

\* The requests handled concurrently: two chats, every kind of path.
ConcRequests ==
    { WebhookText(1, <<"/", "s", "t", "a", "r", "t">>),
      WebhookText(1, SCHEDULE \o <<" ", "a", "b", ",", " ", "2", ",", " ", "h">>),
      WebhookText(MaxChatId, SCHEDULE \o <<" ", "a", "b", ",", " ", "2", ",", " ", "h">>),
      WebhookText(MaxChatId, SCHEDULE \o <<" ", "a", "b">>),
      Req("callback", TRUE, [chat_id |-> 1, text |-> <<"r">>]),
      Req("callback", TRUE, [chat_id |-> MaxChatId, text |-> <<"r">>]),
      Req("callback", TRUE, [text |-> <<"r">>]) }

(* --------------------------- handler state ----------------------------- *)
\* The locals and the position of one request handler.  chat_id is <<>>
\* while the local is unbound.  calls and log record what the handler did.
IdleHandler ==
    [pc |-> "idle", req |-> NoRequest, chat_id |-> <<>>, site |-> "",
     msg |-> NoMsg, url |-> <<>>, hours |-> 0, text |-> <<>>,
     calls |-> <<>>, log |-> <<>>, ret |-> "", exc |-> ""]

\* The view function returns (ret is "200", "500" or "None").
Return(me, ret) == [me EXCEPT !.pc = "done", !.ret = ret]

\* An exception leaves the view function.
Unhandled(me, exc) == [me EXCEPT !.pc = "done", !.ret = "raise", !.exc = exc]

\* The handler blocks in send_message(chat_id, msg) called at site.
CallSend(me, site, msg) == [me EXCEPT !.pc = "send", !.site = site, !.msg = msg]

\* Flask: a view that returns None or raises is answered with status 500.
HttpStatus(me) == IF me.ret = "200" THEN 200 ELSE 500

(* --------------------------- scheduleMessage --------------------------- *)
Outcome(kind, exc, url, hours, text) ==
    [kind |-> kind, exc |-> exc, url |-> url, hours |-> hours, text |-> text]

\* Lines 78-88: up to the delegation POST, the range message or an exception.
scheduleMessage(message, table) ==
    LET parts == split(message, ",")
    IN  IF Len(parts) < 2 THEN Outcome("raise", "IndexError", <<>>, 0, <<>>)
        ELSE IF ~IsInt(strip(parts[2])) THEN Outcome("raise", "ValueError", <<>>, 0, <<>>)
        ELSE LET hours == int(strip(parts[2]))
                 command == parts[1]
                 text == SliceFrom(command, PrefixLen)
                 schedulerArr == split(table, ",")
             IN  IF 1 <= hours /\ hours <= MaxDuration
                 THEN IF hours > Len(schedulerArr)
                      THEN Outcome("raise", "IndexError", <<>>, hours, text)
                      ELSE Outcome("post", "", schedulerArr[hours], hours, text)
                 ELSE Outcome("range", "", <<>>, hours, text)

\* The reply chosen after the delegation POST (lines 96-103).
SchedulerReplyAlwaysAck(res, hours, text) == AckMessage(hours, text)

SchedulerReply(res, hours, text) ==
    IF res = "ok" THEN AckMessage(hours, text) ELSE SchedulerErrorMessage(res)

(* ------------------------------- webhook ------------------------------- *)
\* Lines 143-147: the except clause; chat_id may still be unbound.
webhook_except(me, e) ==
    LET logged == [me EXCEPT !.log = Append(@, "Webhook error")]
    IN  IF me.chat_id = <<>>
        THEN Unhandled(logged, "UnboundLocalError")
        ELSE CallSend(logged, "webhook_except", WebhookErrorMessage(e))

\* Lines 121-134: the command branches.
webhook_command(me, user_text, table) ==
    IF user_text = <<"/", "s", "t", "a", "r", "t">>
    THEN CallSend(me, "branch", get_start_message)
    ELSE IF user_text = <<"/", "f", "o", "r", "m", "a", "t">>
    THEN CallSend(me, "branch", get_format_message)
    ELSE IF startswith(user_text, SCHEDULE)
    THEN LET o == scheduleMessage(user_text, table)
             frame == [me EXCEPT !.hours = o.hours, !.text = o.text, !.url = o.url]
         IN  CASE o.kind = "raise" -> webhook_except(me, o.exc)
               [] o.kind = "range" -> CallSend(frame, "range", RangeMessage)
               [] o.kind = "post" -> [frame EXCEPT !.pc = "post"]
    ELSE IF startswith(user_text, <<"/", "w", "a", "k", "e">>)
    THEN CallSend(me, "branch", get_wakeup_message)
    ELSE CallSend(me, "branch", get_default_message)

\* Lines 110-141: from get_json to the first outbound call or the return.
webhook_entry(me, table) ==
    LET json_data == me.req.json
    IN  IF ~me.req.valid THEN webhook_except(me, "BadRequest")
        ELSE IF "message" \notin DOMAIN json_data THEN Return(me, "200")
        ELSE LET message == json_data.message
             IN  IF "chat" \notin DOMAIN message THEN webhook_except(me, "KeyError")
                 ELSE LET bound == [me EXCEPT !.chat_id = <<message.chat.id>>]
                      IN  IF "text" \notin DOMAIN message THEN Return(bound, "200")
                          ELSE webhook_command(bound, message.text, table)

(* ------------------------------ callback ------------------------------- *)
\* Lines 165-169: the except clause.
callback_except(me, e) ==
    LET logged == [me EXCEPT !.log = Append(@, "Callback error")]
    IN  IF me.chat_id = <<>>
        THEN Unhandled(logged, "UnboundLocalError")
        ELSE CallSend(logged, "callback_except", CallbackErrorMessage(e))

\* Lines 157-161: from get_json to the send.
callback_entry(me) ==
    LET json_data == me.req.json
    IN  IF ~me.req.valid THEN callback_except(me, "BadRequest")
        ELSE IF "text" \notin DOMAIN json_data THEN callback_except(me, "KeyError")
        ELSE IF "chat_id" \notin DOMAIN json_data THEN callback_except(me, "KeyError")
        ELSE CallSend([me EXCEPT !.chat_id = <<json_data.chat_id>>, !.text = json_data.text],
                      "callback", RelayMessage(json_data.text))

(* ------------------------ returns after a send ------------------------- *)
\* Lines 136-139.
BranchReturn(success) == IF success THEN "200" ELSE "500"

\* Lines 88, 100, 104: scheduleMessage returns True whatever the send did.
ScheduleReturn(success) == BranchReturn(TRUE)

\* Lines 146-147 and 168-169: no return when the send failed.
ExceptReturn(success) == IF success THEN "200" ELSE "None"

CallbackReturnAlways200(success) == "200"

\* Lines 162-163.
CallbackReturn(success) == IF success THEN "200" ELSE "None"

ReturnAfterSend(site, success) ==
    CASE site = "branch" -> BranchReturn(success)
      [] site \in {"range", "ack", "scheduler_error"} -> ScheduleReturn(success)
      [] site \in {"webhook_except", "callback_except"} -> ExceptReturn(success)
      [] site = "callback" -> CallbackReturn(success)

(* ------------------------------- steps --------------------------------- *)
\* send_message (lines 18-33) with the network answering res, then the caller.
SendStep(me, chat_id, res) ==
    LET success == (res = "ok")
        sent == [me EXCEPT !.calls = Append(@, Call("send", TelegramUrl, chat_id, me.msg, res)),
                           !.log = IF success THEN @ ELSE Append(@, "Error sending message"),
                           !.msg = NoMsg, !.site = ""]
    IN  Return(sent, ReturnAfterSend(me.site, success))

\* Lines 90-103: the delegation POST with the network answering res.
PostStep(me, chat_id, res) ==
    LET posted == [me EXCEPT !.calls = Append(@, Call("post", me.url, chat_id, PostData(me.text), res)),
                             !.log = IF res = "ok" THEN @
                                     ELSE Append(@, "Error sending message to scheduler")]
    IN  CallSend(posted, IF res = "ok" THEN "ack" ELSE "scheduler_error",
                 SchedulerReply(res, me.hours, me.text))

\* The chat_id local of the handler that is running.
SomeChatId(h) ==
    handler[CHOOSE k \in Handlers : handler[k].chat_id # <<>>
                /\ \A j \in Handlers : handler[j].chat_id # <<>> => k <= j].chat_id[1]

LocalChatId(h) == handler[h].chat_id[1]

(* ------------------------------ actions -------------------------------- *)
Active == {h \in Handlers : handler[h].pc # "idle"}

\* A request arrives and a handler starts on it.
receive(h, reqs, limit) ==
    /\ handler[h].pc = "idle"
    /\ Cardinality(Active) < limit
    /\ \E r \in reqs : handler' = [handler EXCEPT ![h] = [IdleHandler EXCEPT !.pc = "recv", !.req = r]]
    /\ UNCHANGED SCHEDULER_URL

webhook(h) ==
    /\ handler[h].pc = "recv"
    /\ handler[h].req.ep = "webhook"
    /\ handler' = [handler EXCEPT ![h] = webhook_entry(@, SCHEDULER_URL)]
    /\ UNCHANGED SCHEDULER_URL

callback(h) ==
    /\ handler[h].pc = "recv"
    /\ handler[h].req.ep = "callback"
    /\ handler' = [handler EXCEPT ![h] = callback_entry(@)]
    /\ UNCHANGED SCHEDULER_URL

send_message(h) ==
    /\ handler[h].pc = "send"
    /\ \E res \in NetOutcomes :
           handler' = [handler EXCEPT ![h] = SendStep(@, LocalChatId(h), res)]
    /\ UNCHANGED SCHEDULER_URL

post_scheduler(h) ==
    /\ handler[h].pc = "post"
    /\ \E res \in NetOutcomes :
           handler' = [handler EXCEPT ![h] = PostStep(@, LocalChatId(h), res)]
    /\ UNCHANGED SCHEDULER_URL

\* The response has been delivered; the handler's frame is gone.
finish(h) ==
    /\ handler[h].pc = "done"
    /\ handler' = [handler EXCEPT ![h] = IdleHandler]
    /\ UNCHANGED SCHEDULER_URL

Init ==
    /\ handler = [h \in Handlers |-> IdleHandler]
    /\ SCHEDULER_URL \in {SchedulerUrlOf(n) : n \in 1..MaxTableLen}

\* One request at a time, every request shape.
Next ==
    \E h \in Handlers :
        \/ receive(h, Requests, 1)
        \/ webhook(h)
        \/ callback(h)
        \/ send_message(h)
        \/ post_scheduler(h)
        \/ finish(h)

Spec == Init /\ [][Next]_vars

InitConc ==
    /\ handler = [h \in Handlers |-> IdleHandler]
    /\ SCHEDULER_URL \in {SchedulerUrlOf(1), SchedulerUrlOf(MaxDuration)}

\* Up to NumHandlers requests in flight, their steps interleaved.
NextConc ==
    \E h \in Handlers :
        \/ receive(h, ConcRequests, NumHandlers + 1)
        \/ webhook(h)
        \/ callback(h)
        \/ send_message(h)
        \/ post_scheduler(h)
        \/ finish(h)

SpecConc == InitConc /\ [][NextConc]_vars

(* ===================== vocabulary of the properties ===================== *)
Running == {h \in Handlers : handler[h].pc # "idle"}

Done(h) == handler[h].pc = "done"

Sends(me) == SelectSeq(me.calls, LAMBDA c : c.op = "send")

Posts(me) == SelectSeq(me.calls, LAMBDA c : c.op = "post")

\* The configured endpoint table.
Table == split(SCHEDULER_URL, ",")

\* A webhook request that carries a chat id and a text.
IsTextMessage(req) ==
    /\ req.ep = "webhook" /\ req.valid
    /\ "message" \in DOMAIN req.json
    /\ "chat" \in DOMAIN req.json.message
    /\ "text" \in DOMAIN req.json.message

IsScheduleRequest(req) == IsTextMessage(req) /\ startswith(req.json.message.text, SCHEDULE)

Fields(req) == split(req.json.message.text, ",")

\* The request has a quantity field that parses as an integer.
HasQuantity(req) == IsScheduleRequest(req) /\ Len(Fields(req)) >= 2 /\ IsInt(Fields(req)[2])

Quantity(req) == int(Fields(req)[2])

\* What follows the "/schedule" token in the first field.
TaskField(req) == SliceFrom(Fields(req)[1], Len(SCHEDULE))

IsTrimmed(t) == t = <<>> \/ (t[1] \notin Whitespace /\ t[Len(t)] \notin Whitespace)

\* t is s without its leading and trailing whitespace.
IsTrimOf(t, s) ==
    /\ IsTrimmed(t)
    /\ \E i \in 0..Len(s) :
          /\ i + Len(t) <= Len(s)
          /\ SubSeq(s, i + 1, i + Len(t)) = t
          /\ \A k \in 1..Len(s) : (k <= i \/ k > i + Len(t)) => s[k] \in Whitespace

IsWellFormedCallback(req) ==
    /\ req.ep = "callback" /\ req.valid
    /\ "chat_id" \in DOMAIN req.json
    /\ "text" \in DOMAIN req.json

IsMalformedCallback(req) ==
    /\ req.ep = "callback" /\ req.valid
    /\ ("chat_id" \notin DOMAIN req.json \/ "text" \notin DOMAIN req.json)

\* The chat id carried by the inbound event (0 when it carries none).
EventChatId(req) ==
    IF req.ep = "webhook"
    THEN IF req.valid /\ "message" \in DOMAIN req.json /\ "chat" \in DOMAIN req.json.message
         THEN req.json.message.chat.id ELSE 0
    ELSE IF req.valid /\ "chat_id" \in DOMAIN req.json THEN req.json.chat_id ELSE 0

FailedPost(me) == \E i \in 1..Len(me.calls) : me.calls[i].op = "post" /\ me.calls[i].res # "ok"

OkPost(me) == \E i \in 1..Len(me.calls) : me.calls[i].op = "post" /\ me.calls[i].res = "ok"

FailedSend(me) == \E i \in 1..Len(me.calls) : me.calls[i].op = "send" /\ me.calls[i].res # "ok"

(* ================================ claims ================================ *)

\* C1: for every table and integer quantity d, a schedule request with
\* 1 <= d <= Len(Table) is delegated to Table[d], and every other d gets the
\* range-error message and no delegation: the range is the table's length.
C1_RangeIsTableLength ==
    \A h \in Handlers :
        (Done(h) /\ HasQuantity(handler[h].req)) =>
            LET me == handler[h]
                d == Quantity(me.req)
            IN  IF 1 <= d /\ d <= Len(Table)
                THEN Len(Posts(me)) = 1 /\ Posts(me)[1].url = Table[d]
                ELSE /\ Posts(me) = <<>>
                     /\ Len(Sends(me)) = 1
                     /\ Sends(me)[1].msg = RangeMessage

\* C2: a schedule request whose quantity is an integer outside 1..Len(Table)
\* issues no delegation POST and sends exactly one chat message, the
\* range-error text, to the originating chat.
C2_OutOfRangeOneRangeMessage ==
    \A h \in Handlers :
        LET me == handler[h]
        IN  (Done(h) /\ HasQuantity(me.req)
                /\ (Quantity(me.req) < 1 \/ Quantity(me.req) > Len(Table))) =>
                /\ Posts(me) = <<>>
                /\ Len(Sends(me)) = 1
                /\ Sends(me)[1].chat_id = EventChatId(me.req)
                /\ Sends(me)[1].msg = RangeMessage

\* C3: when the delegation POST fails (HTTP error or transport error) it is
\* issued exactly once, the only chat message is the error detail sent to
\* the request's chat, and the acknowledgment is never sent.
C3_FailedDelegationOneError ==
    \A h \in Handlers :
        LET me == handler[h]
        IN  FailedPost(me) =>
                /\ Len(Posts(me)) = 1
                /\ Len(Sends(me)) <= 1
                /\ \A i \in 1..Len(Sends(me)) :
                      /\ Sends(me)[i].chat_id = EventChatId(me.req)
                      /\ Sends(me)[i].msg = SchedulerErrorMessage(Posts(me)[1].res)
                /\ me.msg.kind # "ack"
                /\ Done(h) => Len(Sends(me)) = 1

C3_Witness ==
    \E h \in Handlers :
        /\ Done(h)
        /\ FailedPost(handler[h])
        /\ Posts(handler[h])[1].res = "HTTPError"
        /\ Len(Sends(handler[h])) = 1

C5_MalformedScheduleHandled ==
    \A h \in Handlers :
        LET me == handler[h]
        IN  (Done(h) /\ IsScheduleRequest(me.req)
                /\ (Len(Fields(me.req)) < 3 \/ ~IsInt(Fields(me.req)[2]))) =>
                /\ Posts(me) = <<>>
                /\ Len(Sends(me)) = 1
                /\ Sends(me)[1].chat_id = EventChatId(me.req)
                /\ Sends(me)[1].msg.kind \in {"webhook_error", "format"}
                /\ HttpStatus(me) = 200

\* C6: for a well-formed callback payload, send_message is called exactly
\* once with the payload's chat_id and text, and the response is success
\* exactly when that send succeeded (status 500 otherwise).
C6_CallbackRelaysOnce ==
    \A h \in Handlers :
        LET me == handler[h]
        IN  IsWellFormedCallback(me.req) =>
                /\ Len(me.calls) <= 1
                /\ \A i \in 1..Len(me.calls) :
                      /\ me.calls[i].op = "send"
                      /\ me.calls[i].chat_id = me.req.json.chat_id
                      /\ me.calls[i].msg.text = me.req.json.text
                      /\ me.calls[i].msg.kind = "relay"
                /\ Done(h) =>
                      /\ Len(me.calls) = 1
                      /\ (HttpStatus(me) = 200) <=> (me.calls[1].res = "ok")
                      /\ me.ret # "raise"

C6_Witness ==
    \E h \in Handlers :
        LET me == handler[h]
        IN  /\ Done(h)
            /\ IsWellFormedCallback(me.req)
            /\ Len(me.calls) = 1
            /\ me.calls[1].res # "ok"
            /\ HttpStatus(me) = 500

\* C7: a callback payload lacking chat_id or text is logged, sends no chat
\* message, gets a failure response, and the handler raises no unhandled
\* exception.
C7_MalformedCallbackNoRaise ==
    \A h \in Handlers :
        LET me == handler[h]
        IN  (Done(h) /\ IsMalformedCallback(me.req)) =>
                /\ me.log # <<>>
                /\ me.calls = <<>>
                /\ HttpStatus(me) # 200
                /\ me.ret # "raise"

\* C8: whenever a send_message call fails while a webhook message is
\* handled, on every branch, the webhook does not answer success.
C8_SendFailureIsTransportFailure ==
    \A h \in Handlers :
        LET me == handler[h]
        IN  (Done(h) /\ me.req.ep = "webhook" /\ FailedSend(me)) => HttpStatus(me) # 200

\* The result of handling req with no other handler around, the network
\* answering the delegation POST with po and the chat send with so.
Alone(req, po, so) ==
    LET s0 == [IdleHandler EXCEPT !.pc = "recv", !.req = req]
        s1 == IF req.ep = "webhook" THEN webhook_entry(s0, SCHEDULER_URL) ELSE callback_entry(s0)
        s2 == IF s1.pc = "post" THEN PostStep(s1, s1.chat_id[1], po) ELSE s1
    IN  IF s2.pc = "send" THEN SendStep(s2, s2.chat_id[1], so) ELSE s2

\* C9: under every interleaving, each chat message and each delegation body
\* of a handler carries the chat id of that handler's event, and a finished
\* handler's outbound calls and response are those of handling the event
\* alone; a step of one handler changes no other handler and no configuration.
C9_HandlersIndependent ==
    /\ [](\A h \in Running :
            LET me == handler[h]
            IN  /\ \A i \in 1..Len(me.calls) : me.calls[i].chat_id = EventChatId(me.req)
                /\ Done(h) =>
                      \E po \in NetOutcomes, so \in NetOutcomes :
                          /\ me.calls = Alone(me.req, po, so).calls
                          /\ me.ret = Alone(me.req, po, so).ret
                          /\ me.exc = Alone(me.req, po, so).exc)
    /\ [][/\ SCHEDULER_URL' = SCHEDULER_URL
          /\ \A h \in Handlers, k \in Handlers :
                (handler'[h] # handler[h] /\ k # h) => handler'[k] = handler[k]]_vars

C9_Witness ==
    \E h \in Handlers, k \in Handlers :
        /\ handler[h].pc = "send"
        /\ Len(handler[h].calls) = 1
        /\ handler[k].pc = "post"
        /\ EventChatId(handler[h].req) # EventChatId(handler[k].req)

\* C10: every delegation POST carries the task text trimmed and non-empty
\* and a duration within 1..Len(Table).
C10_DelegatedRequestIsValid ==
    \A h \in Handlers :
        LET me == handler[h]
        IN  \A i \in 1..Len(Posts(me)) :
                /\ IsTrimOf(Posts(me)[i].msg.text, TaskField(me.req))
                /\ Posts(me)[i].msg.text # <<>>
                /\ 1 <= Quantity(me.req) /\ Quantity(me.req) <= Len(Table)

====
